---- MODULE Spec2Model ----
(***************************************************************************)
(* The contact form of src/project/components/contact-form.tsx: the React *)
(* state of ContactForm, the react-hook-form field values, the pending     *)
(* onSubmit invocations, the revert timers and the notifications.          *)
(***************************************************************************)
EXTENDS Naturals, Sequences, FiniteSets

(* ------------------------------------------------------------------ *)
(* Bounds of the exploration                                           *)
(* ------------------------------------------------------------------ *)
\* submissions explored in one behaviour
MaxSubmits == 2

(* ------------------------------------------------------------------ *)
(* JavaScript values held by fullReport and carried by a response      *)
(* ------------------------------------------------------------------ *)
Null == [t |-> "null", v |-> ""]
Undefined == [t |-> "undefined", v |-> ""]
Str(s) == [t |-> "string", v |-> s]
Num(s) == [t |-> "number", v |-> s]

\* JavaScript truthiness, as used by `fullReport && (...)` and `fullReport || ''`
Truthy(x) ==
    CASE x.t = "null" -> FALSE
      [] x.t = "undefined" -> FALSE
      [] x.t = "string" -> x.v # ""
      [] x.t = "number" -> x.v \notin {"0", "NaN"}

\* String(x): what clipboard.writeText receives after its DOMString conversion
ToDOMString(x) ==
    CASE x.t = "null" -> "null"
      [] x.t = "undefined" -> "undefined"
      [] OTHER -> x.v

(* ------------------------------------------------------------------ *)
(* Field values are sequences of characters                             *)
(* ------------------------------------------------------------------ *)
Rep(c, n) == [i \in 1..n |-> c]

Alpha == {"a", "b", "c", "o", "h", "t", "p", "J"}
Digit == {"5"}
AlNum == Alpha \cup Digit

Cleared == << >>

\* the values a user types into each field
Names == {Cleared, <<"J">>, <<"J", "o">>}
Emails == {Cleared, <<"a", "@", "b">>, <<"a", "@", "b", ".", "c", "o">>}
Phones == {Cleared, Rep("5", 9), Rep("5", 10)}
Websites == {Cleared, <<"h", "t", "t", "p", ":">>,
             <<"h", "t", "t", "p", ":", "/", "/", "a">>}

FieldNames == {"name", "email", "phone", "website"}
FieldValues(f) ==
    CASE f = "name" -> Names
      [] f = "email" -> Emails
      [] f = "phone" -> Phones
      [] f = "website" -> Websites

(* ------------------------------------------------------------------ *)
(* formSchema                                                           *)
(* ------------------------------------------------------------------ *)
\* the bound of the name off by one
NameOk_OffByOne(s) == Len(s) >= 1

\* z.string().min(2)
NameOk(s) == Len(s) >= 2

\* z.string().min(10)
PhoneOk(s) == Len(s) >= 10

\* the labels of a dotted name are non-empty: no leading, trailing or double dot
NoEmptyLabel(s) ==
    /\ Len(s) >= 1
    /\ s[1] # "."
    /\ s[Len(s)] # "."
    /\ \A i \in 1..(Len(s) - 1) : ~(s[i] = "." /\ s[i + 1] = ".")

\* the local part of z.string().email(): [A-Z0-9_'+-.]*[A-Z0-9_+-], not
\* starting with a dot and without two dots in a row
LocalOk(s) ==
    /\ NoEmptyLabel(s)
    /\ \A i \in 1..Len(s) : s[i] \in AlNum \cup {"_", "'", "+", "-", "."}
    /\ s[Len(s)] # "'"

\* the domain of z.string().email(): ([A-Z0-9][A-Z0-9-]*\.)+[A-Z]{2,}
DomainOk(s) ==
    /\ NoEmptyLabel(s)
    /\ \A i \in 1..Len(s) : s[i] \in AlNum \cup {"-", "."}
    /\ s[1] # "-"
    /\ \A i \in 1..(Len(s) - 1) : ~(s[i] = "." /\ s[i + 1] = "-")
    /\ \E d \in 1..Len(s) :
          /\ s[d] = "."
          /\ Len(s) - d >= 2
          /\ \A i \in (d + 1)..Len(s) : s[i] \in Alpha

\* z.string().email()
EmailOk(s) ==
    \E k \in 1..Len(s) :
        /\ s[k] = "@"
        /\ k > 1
        /\ LocalOk(SubSeq(s, 1, k - 1))
        /\ DomainOk(SubSeq(s, k + 1, Len(s)))

SpecialSchemes == {<<"h", "t", "t", "p">>, <<"h", "t", "t", "p", "s">>}

\* the rest of s from position i on, leading slashes skipped
AfterSlashes(s, i) ==
    LET n == Len(s)
        first == IF \E j \in i..n : s[j] # "/"
                 THEN CHOOSE j \in i..n : s[j] # "/" /\ \A l \in i..(j - 1) : s[l] = "/"
                 ELSE n + 1
    IN SubSeq(s, first, n)

\* z.string().url(): `new URL(s)` does not throw. A scheme, a colon and, for a
\* special scheme, a non-empty host
UrlOk(s) ==
    \E k \in 2..Len(s) :
        /\ s[k] = ":"
        /\ s[1] \in Alpha
        /\ \A i \in 1..(k - 1) : s[i] \in AlNum \cup {"+", "-", "."}
        /\ SubSeq(s, 1, k - 1) \in SpecialSchemes => AfterSlashes(s, k + 1) # << >>

\* z.string().url().optional().or(z.literal(''))
WebsiteOk(s) == UrlOk(s) \/ s = << >>

\* formSchema.safeParse(data).success
formSchema(data) ==
    /\ NameOk(data.name)
    /\ EmailOk(data.email)
    /\ PhoneOk(data.phone)
    /\ WebsiteOk(data.website)

(* ------------------------------------------------------------------ *)
(* State                                                                *)
(* ------------------------------------------------------------------ *)
VARIABLES
    isSubmitting,   \* useState(false)
    isSubmitted,    \* useState(false)
    fullReport,     \* useState<string | null>(null)
    form,           \* the values of the registered inputs
    fetching,       \* onSubmit invocations suspended at `await fetch(...)`
    parsing,        \* onSubmit invocations suspended at `await response.json()`
    timers,         \* pending setTimeout(() => setIsSubmitted(false), 3000)
    toasts,         \* title of the latest toast({...}), "none" before the first
    clipboard,      \* text on the system clipboard
    mounted,        \* the ContactForm that <Home> renders is mounted
    netCalls,       \* history: calls of fetch
    accepted,       \* history: entries of onSubmit
    lastSubmission, \* history: "none", "started", "succeeded" or "failed"
    reportBefore,   \* history: fullReport when the latest onSubmit was entered
    successes,      \* history: runs of onSubmit's success path
    owners,         \* history: for each pending timer, in the order they
                    \* fire, the number n of the success that scheduled it
                    \* and the kind of response that success had
    successOf,      \* history: the number of the success whose Success state
                    \* the form is in, 0 when it is in none
    ev              \* history: the latest step and its input

vars == <<isSubmitting, isSubmitted, fullReport, form, fetching, parsing, timers,
          toasts, clipboard, mounted, netCalls, accepted, lastSubmission,
          reportBefore, successes, owners, successOf, ev>>

Event(op, arg, val) == [op |-> op, arg |-> arg, val |-> val]

Init ==
    /\ isSubmitting = FALSE
    /\ isSubmitted = FALSE
    /\ fullReport = Null
    /\ form = [name |-> Cleared, email |-> Cleared, phone |-> Cleared,
               website |-> Cleared]
    /\ fetching = 0
    /\ parsing = 0
    /\ timers = 0
    /\ toasts = "none"
    /\ clipboard = ""
    /\ mounted = TRUE
    /\ netCalls = 0
    /\ accepted = 0
    /\ lastSubmission = "none"
    /\ reportBefore = Null
    /\ successes = 0
    /\ owners = << >>
    /\ successOf = 0
    /\ ev = Event("init", "", Null)

(* ------------------------------------------------------------------ *)
(* What the render shows                                                *)
(* ------------------------------------------------------------------ *)
\* the button never disabled
disabled_Never == FALSE

\* <Button type="submit" disabled={isSubmitting}>
disabled == isSubmitting

\* the label of the submit button
ButtonLabel ==
    IF isSubmitting THEN "Sending..."
    ELSE IF isSubmitted THEN "Message Sent!"
    ELSE "Send Message"

\* {fullReport && <div id="report-section">...}
ReportRendered == Truthy(fullReport)

InFlight == fetching + parsing

\* a useState setter or reset(): React drops the update of a component that
\* is no longer mounted
SetState(cur, new) == IF mounted THEN new ELSE cur

(* ------------------------------------------------------------------ *)
(* The user edits a field                                               *)
(* ------------------------------------------------------------------ *)
\* {...register(f)}: the input's onChange stores the typed value
Type(f, val) ==
    /\ mounted
    /\ val # form[f]
    /\ form' = [form EXCEPT ![f] = val]
    /\ ev' = Event("type", "", Null)
    /\ UNCHANGED <<successes, owners, successOf, mounted, isSubmitting,
                   isSubmitted, fullReport, fetching, parsing, timers, toasts,
                   clipboard, netCalls, accepted, lastSubmission,
                   reportBefore>>

(* ------------------------------------------------------------------ *)
(* The submit button and handleSubmit(onSubmit)                         *)
(* ------------------------------------------------------------------ *)
\* a click on the disabled button dispatches no submit event
ClickDisabled ==
    /\ mounted
    /\ disabled
    /\ ev' = Event("click", "disabled", Null)
    /\ UNCHANGED <<successes, owners, successOf, mounted, isSubmitting,
                   isSubmitted, fullReport, form, fetching, parsing, timers,
                   toasts, clipboard, netCalls, accepted, lastSubmission,
                   reportBefore>>

\* handleSubmit: the resolver rejects the values, onSubmit is not called
ClickInvalid ==
    /\ mounted
    /\ ~disabled
    /\ ~formSchema(form)
    /\ ev' = Event("click", "invalid", Null)
    /\ UNCHANGED <<successes, owners, successOf, mounted, isSubmitting,
                   isSubmitted, fullReport, form, fetching, parsing, timers,
                   toasts, clipboard, netCalls, accepted, lastSubmission,
                   reportBefore>>

\* the previous result kept when onSubmit is entered
ClearedReport_Kept == fullReport

\* setFullReport(null); // Clear previous result
ClearedReport == Null

\* handleSubmit: the resolver accepts the values and onSubmit runs up to its
\* first await: setIsSubmitting(true), setFullReport(null), fetch(...)
\* The validation and the entry of onSubmit run in the microtasks of the
\* click's own task, and React commits the render with the disabled button
\* before the browser dispatches the next user event: one step.
ClickValid ==
    /\ mounted
    /\ netCalls < MaxSubmits
    /\ ~disabled
    /\ formSchema(form)
    /\ accepted' = accepted + 1
    /\ isSubmitting' = TRUE
    /\ fullReport' = ClearedReport
    /\ netCalls' = netCalls + 1
    /\ fetching' = fetching + 1
    /\ lastSubmission' = "started"
    /\ reportBefore' = fullReport
    /\ ev' = Event("click", "valid", Null)
    /\ UNCHANGED <<successes, owners, successOf, mounted, isSubmitted, form,
                   parsing, timers, toasts, clipboard>>

(* ------------------------------------------------------------------ *)
(* onSubmit resumes                                                     *)
(* ------------------------------------------------------------------ *)
\* a catch block that issues the request again
Failure_Retry(kind, f, p) ==
    /\ fetching' = f + 1
    /\ parsing' = p
    /\ netCalls' = netCalls + 1
    /\ toasts' = "Error"
    /\ lastSubmission' = "started"
    /\ ev' = Event("response", kind, Null)
    /\ UNCHANGED <<successes, owners, successOf, mounted, isSubmitting,
                   isSubmitted, fullReport, form, timers, clipboard, accepted,
                   reportBefore>>

\* catch { toast({title: 'Error', ...}) } finally { setIsSubmitting(false) }
\* f and p are the invocations left suspended at fetch and at response.json()
Failure(kind, f, p) ==
    /\ fetching' = f
    /\ parsing' = p
    /\ toasts' = "Error"
    /\ isSubmitting' = SetState(isSubmitting, FALSE)
    /\ lastSubmission' = "failed"
    /\ ev' = Event("response", kind, Null)
    /\ UNCHANGED <<successes, owners, successOf, mounted, isSubmitted,
                   fullReport, form, timers, clipboard, netCalls, accepted,
                   reportBefore>>

\* fetch rejects (network failure) or resolves with !response.ok: the catch
\* block; fetch resolves with response.ok: on to `await response.json()`
FetchSettles(outcome) ==
    /\ fetching > 0
    /\ IF outcome = "ok"
       THEN /\ fetching' = fetching - 1
            /\ parsing' = parsing + 1
            /\ ev' = Event("headers", "ok", Null)
            /\ UNCHANGED <<successes, owners, successOf, mounted,
                           isSubmitting, isSubmitted, fullReport, form,
                           timers, toasts, clipboard, netCalls, accepted,
                           lastSubmission, reportBefore>>
       ELSE Failure(outcome, fetching - 1, parsing)

FetchOutcomes == {"network", "non2xx", "ok"}

\* what `await response.json()` gives: a rejection, or the parsed value
NoBody == [kind |-> "unparseable", full_report |-> Undefined]
JsonNull == [kind |-> "null", full_report |-> Undefined]
Obj(x) == [kind |-> "object", full_report |-> x]

Reports == {Str("# Hello")}
Bodies == {NoBody, JsonNull, Obj(Undefined), Obj(Num("7")), Obj(Str(""))}
              \cup {Obj(r) : r \in Reports}

\* the class of a 2xx body, for the history
BodyKind(b) ==
    CASE b.kind = "unparseable" -> "unparseable"
      [] b.kind = "null" -> "jsonNull"
      [] b.full_report.t = "undefined" -> "noField"
      [] b.full_report.t = "string" -> IF b.full_report.v = "" THEN "empty" ELSE "report"
      [] OTHER -> "nonString"

\* response.json() rejects, or `result.full_report` throws on null: the catch
\* block. Otherwise setFullReport(result.full_report), the success toast,
\* setIsSubmitted(true), reset(), setTimeout(...), and finally
JsonSettles(b) ==
    /\ parsing > 0
    /\ IF b.kind \in {"unparseable", "null"}
       THEN Failure(BodyKind(b), fetching, parsing - 1)
       ELSE /\ parsing' = parsing - 1
            /\ fetching' = fetching
            /\ fullReport' = SetState(fullReport, b.full_report)
            /\ toasts' = "Success!"
            /\ isSubmitted' = SetState(isSubmitted, TRUE)
            /\ form' = SetState(form, [name |-> Cleared, email |-> Cleared,
                                       phone |-> Cleared, website |-> Cleared])
            /\ timers' = timers + 1
            /\ successes' = successes + 1
            /\ owners' = Append(owners, [n |-> successes + 1,
                                      kind |-> BodyKind(b)])
            /\ successOf' = SetState(successOf, successes + 1)
            /\ isSubmitting' = SetState(isSubmitting, FALSE)
            /\ lastSubmission' = "succeeded"
            /\ ev' = Event("response", BodyKind(b), b.full_report)
            /\ UNCHANGED <<mounted, clipboard, netCalls, accepted,
                           reportBefore>>

\* a timer callback that leaves isSubmitted as it is
TimerFires_NoRevert ==
    /\ timers > 0
    /\ timers' = timers - 1
    /\ owners' = Tail(owners)
    /\ ev' = Event("timer", "", Null)
    /\ UNCHANGED <<successes, successOf, mounted, isSubmitting, isSubmitted,
                   fullReport, form, fetching, parsing, toasts, clipboard,
                   netCalls, accepted, lastSubmission, reportBefore>>

\* () => setIsSubmitted(false), 3000 ms after it was scheduled
TimerFires ==
    /\ timers > 0
    /\ timers' = timers - 1
    /\ isSubmitted' = SetState(isSubmitted, FALSE)
    /\ owners' = Tail(owners)
    /\ successOf' = SetState(successOf, 0)
    /\ ev' = Event("timer", "", Null)
    /\ UNCHANGED <<successes, mounted, isSubmitting, fullReport, form,
                   fetching, parsing, toasts, clipboard, netCalls, accepted,
                   lastSubmission, reportBefore>>

(* ------------------------------------------------------------------ *)
(* Copy Report                                                          *)
(* ------------------------------------------------------------------ *)
\* what the host does with a clipboard write: "ok", "denied" (writeText's
\* promise rejects) or "unavailable" (navigator.clipboard is undefined)
ClipboardHosts == {"ok", "denied", "unavailable"}

\* onClick of the Copy Report button, which exists while the report is rendered:
\* navigator.clipboard.writeText(fullReport || ''), not awaited, then the toast
CopyReport(host) ==
    /\ mounted
    /\ ReportRendered
    /\ clipboard' = IF host = "ok"
                    THEN (IF Truthy(fullReport) THEN ToDOMString(fullReport) ELSE "")
                    ELSE clipboard
    /\ toasts' = IF host = "unavailable" THEN toasts ELSE "Copied!"
    /\ ev' = Event("copy", host, Null)
    /\ UNCHANGED <<successes, owners, successOf, mounted, isSubmitting,
                   isSubmitted, fullReport, form, fetching, parsing, timers,
                   netCalls, accepted, lastSubmission, reportBefore>>

(* ------------------------------------------------------------------ *)
(* Teardown                                                             *)
(* ------------------------------------------------------------------ *)
\* React unmounts the ContactForm: no effect cleanup, AbortController or
\* clearTimeout exists, so the pending requests and timers stay
Unmount ==
    /\ mounted
    /\ mounted' = FALSE
    /\ ev' = Event("unmount", "", Null)
    /\ UNCHANGED <<isSubmitting, isSubmitted, fullReport, form, fetching,
                   parsing, timers, toasts, clipboard, netCalls, accepted,
                   lastSubmission, reportBefore, successes, owners,
                   successOf>>

Next ==
    \/ \E f \in FieldNames : \E val \in FieldValues(f) : Type(f, val)
    \/ ClickDisabled
    \/ ClickInvalid
    \/ ClickValid
    \/ \E outcome \in FetchOutcomes : FetchSettles(outcome)
    \/ \E b \in Bodies : JsonSettles(b)
    \/ TimerFires
    \/ \E host \in ClipboardHosts : CopyReport(host)
    \/ Unmount

Spec == Init /\ [][Next]_vars

\* the browser's timer queue runs every scheduled callback
FairSpec == Spec /\ WF_vars(TimerFires)

TypeOK ==
    /\ isSubmitting \in BOOLEAN
    /\ isSubmitted \in BOOLEAN
    /\ mounted \in BOOLEAN
    /\ fetching \in 0..MaxSubmits
    /\ parsing \in 0..MaxSubmits
    /\ timers \in 0..MaxSubmits
    /\ toasts \in {"none", "Success!", "Error", "Copied!"}
    /\ lastSubmission \in {"none", "started", "succeeded", "failed"}

(* ------------------------------------------------------------------ *)
(* Vocabulary of the properties                                         *)
(* ------------------------------------------------------------------ *)
\* outcomes that onSubmit's catch block handles
CaughtKinds == {"network", "non2xx", "unparseable", "jsonNull"}
\* 2xx bodies that parse but carry no full_report string
MalformedParsedKinds == {"noField", "nonString"}
\* every outcome that is not a 2xx response with a full_report string
FailureKinds == CaughtKinds \cup MalformedParsedKinds
\* a 2xx response with a full_report string
SuccessKinds == {"empty", "report"}

AllCleared == [name |-> Cleared, email |-> Cleared, phone |-> Cleared,
               website |-> Cleared]

\* the state of the mounted form right after a submission completed with the
\* given kinds
Completed(kinds) == mounted /\ ev.op = "response" /\ ev.arg \in kinds
\* the step that completes a submission of the mounted form with the given
\* kinds
Completes(kinds) ==
    /\ mounted
    /\ fetching' + parsing' < fetching + parsing
    /\ ev'.op = "response"
    /\ ev'.arg \in kinds
\* the step is a click of the submit button
Clicks == ev'.op = "click"

(* ------------------------------------------------------------------ *)
(* C1                                                                   *)
(* ------------------------------------------------------------------ *)
\* C1: a ReportResult is present (fullReport holds a report and the report
\* region is rendered) exactly when the most recent submission succeeded and
\* no newer submission has started.
C1_ReportIffLastSucceeded ==
    mounted =>
        ((fullReport # Null /\ ReportRendered) <=> (lastSubmission = "succeeded"))

(* ------------------------------------------------------------------ *)
(* C2                                                                   *)
(* ------------------------------------------------------------------ *)
\* C2 as stated: after a failed submission the report that was displayed
\* before the submit trigger is still there, fullReport being what it was
\* before the trigger.
C2_ReportKeptAcrossFailure ==
    (Completed(FailureKinds) /\ Truthy(reportBefore)) => fullReport = reportBefore

\* C2 as amended: after a failed submission fullReport holds no report text:
\* the trigger cleared the earlier report and the failure does not restore it;
\* after a failure handled by the catch block fullReport is null.
C2_ReportClearedAcrossFailure ==
    /\ Completed(FailureKinds) => fullReport.t # "string"
    /\ Completed(CaughtKinds) => fullReport = Null

\* a report was displayed, a new submission was triggered and has failed
C2_Witness ==
    /\ Completed(CaughtKinds)
    /\ reportBefore \in Reports
    /\ fullReport = Null

(* ------------------------------------------------------------------ *)
(* C3                                                                   *)
(* ------------------------------------------------------------------ *)
\* C3: at most one submission request is in flight; while one is pending the
\* submit button is disabled, and a click during that interval issues no
\* network call and starts nothing.
C3_OneInFlight ==
    /\ [](InFlight <= 1 /\ (InFlight = 1 => disabled))
    /\ [][(Clicks /\ InFlight > 0) =>
             (netCalls' = netCalls /\ fetching' = fetching /\ parsing' = parsing)]_vars

\* a click arrived while a request was pending
C3_Witness == ev.op = "click" /\ ev.arg = "disabled" /\ InFlight = 1

(* ------------------------------------------------------------------ *)
(* C4                                                                   *)
(* ------------------------------------------------------------------ *)
\* C4: a 2xx response whose body is unparseable or lacks a full_report string
\* is handled as a failure: the error notification, no success notification,
\* the Success state not entered, the input fields not cleared.
C4_MalformedIsFailure ==
    [][Completes({"unparseable", "jsonNull"} \cup MalformedParsedKinds) =>
          /\ toasts' = "Error"
          /\ isSubmitted' = isSubmitted
          /\ form' = form]_vars

(* ------------------------------------------------------------------ *)
(* C5                                                                   *)
(* ------------------------------------------------------------------ *)
\* the inputs C5 names
C5_BadInput ==
    \/ Len(form.name) < 2
    \/ ~EmailOk(form.email)
    \/ Len(form.phone) < 10
    \/ (form.website # << >> /\ ~UrlOk(form.website))

\* C5: with a name shorter than 2, a malformed email, a phone shorter than 10
\* or a non-empty malformed website, a click of the submit button does not
\* enter onSubmit, makes no network call and leaves isSubmitting, isSubmitted
\* and fullReport as they were.
C5_InvalidIsBlocked ==
    [][(Clicks /\ C5_BadInput) =>
          UNCHANGED <<accepted, netCalls, fetching, parsing, isSubmitting,
                      isSubmitted, fullReport>>]_vars

\* a click was blocked although only the website was malformed
C5_Witness ==
    /\ ev.op = "click" /\ ev.arg = "invalid"
    /\ Len(form.name) >= 2 /\ EmailOk(form.email) /\ Len(form.phone) >= 10
    /\ form.website # << >>

(* ------------------------------------------------------------------ *)
(* C6                                                                   *)
(* ------------------------------------------------------------------ *)
\* C6: every accepted click on valid input issues exactly one request, the
\* button is disabled while the request is pending, and a request is issued
\* by nothing but such a click: the network calls number the accepted clicks.
C6_OneCallPerClick ==
    /\ [](netCalls = accepted /\ (InFlight > 0 => disabled))
    /\ [][netCalls' # netCalls =>
             /\ netCalls' = netCalls + 1
             /\ Clicks
             /\ ~disabled
             /\ ~C5_BadInput
             /\ fetching' + parsing' = fetching + parsing + 1]_vars

\* a second request was issued after a failed one, by a second click
C6_Witness == netCalls = 2 /\ accepted = 2 /\ toasts = "Error" /\ InFlight = 1

(* ------------------------------------------------------------------ *)
(* C7                                                                   *)
(* ------------------------------------------------------------------ *)
\* C7: a successful response carrying full_report = R stores fullReport = R
\* and enters Success (isSubmitted true, isSubmitting false); a revert timer
\* is pending throughout Success, and Success is always followed by Idle
\* (isSubmitted false) with no user action needed. The flow is that of the
\* mounted form: a view that is torn down has no affordance left to revert.
C7_SuccessThenIdle ==
    /\ [][Completes({"report"}) =>
             /\ ev'.val \in Reports
             /\ fullReport' = ev'.val
             /\ isSubmitted'
             /\ ~isSubmitting']_vars
    /\ []((mounted /\ isSubmitted) => timers > 0)
    /\ ((mounted /\ isSubmitted) ~> (~isSubmitted \/ ~mounted))

\* the timer has reverted the button while the stored report is displayed
C7_Witness ==
    /\ mounted
    /\ ev.op = "timer"
    /\ ~isSubmitted
    /\ lastSubmission = "succeeded"
    /\ fullReport \in Reports
    /\ ButtonLabel = "Send Message"

(* ------------------------------------------------------------------ *)
(* C8                                                                   *)
(* ------------------------------------------------------------------ *)
\* C8: when a failure has been handled the submit button is Idle: enabled
\* and showing its default label, whatever preceded the failed submission.
C8_FailureReturnsToIdle ==
    Completed(CaughtKinds) => (~disabled /\ ButtonLabel = "Send Message")

(* ------------------------------------------------------------------ *)
(* C9                                                                   *)
(* ------------------------------------------------------------------ *)
\* C9: a submission clears the input fields exactly when it succeeds: a
\* success resets the form, every failure (non-2xx, network failure,
\* malformed response) leaves the fields as the user has them.
C9_ClearedIffSuccess ==
    [][/\ Completes(SuccessKinds) => form' = AllCleared
       /\ Completes(FailureKinds) => form' = form]_vars

(* ------------------------------------------------------------------ *)
(* C10                                                                  *)
(* ------------------------------------------------------------------ *)
\* C10: a Copy that the host denies surfaces an error notification and no
\* 'Copied!' confirmation; the confirmation is shown only when the clipboard
\* write of the stored report succeeded.
C10_CopyDeniedIsReported ==
    ev.op = "copy" =>
        IF ev.arg = "ok"
        THEN toasts = "Copied!" /\ clipboard = ToDOMString(fullReport)
        ELSE toasts = "Error"

(* ------------------------------------------------------------------ *)
(* C11                                                                  *)
(* ------------------------------------------------------------------ *)
\* C11: once the form is torn down, the result of a request that was pending
\* is discarded: no step emits a notification, schedules a timer or updates
\* the state of the form.
C11_ResultDiscardedAfterTeardown ==
    [][~mounted =>
          /\ toasts' = toasts
          /\ timers' <= timers
          /\ UNCHANGED <<isSubmitting, isSubmitted, fullReport, form>>]_vars

(* ------------------------------------------------------------------ *)
(* C12                                                                  *)
(* ------------------------------------------------------------------ *)
\* C12: the Success state of a submission is ended only by the timer that
\* this submission scheduled: when a timer callback turns isSubmitted from
\* true to false, the timer is the one of the success the form is showing.
\* Stated for submissions that succeeded with a report text.
C12_OwnTimerEndsSuccess ==
    [][(/\ ev'.op = "timer"
        /\ isSubmitted /\ ~isSubmitted'
        /\ Head(owners).kind \in SuccessKinds
        /\ fullReport \in Reports) =>
          Head(owners).n = successOf]_vars

====
